---- MODULE Spec2Model ----
(***************************************************************************)
(* A model of madam's core (src/madam/core.py): the asset storages, the    *)
(* read() dispatcher with its two registries, and the operator pipeline.   *)
(* Each component has its own specification over the shared variables:     *)
(*   SpecRace      two FileStorage handles on one directory                *)
(*   SpecStorage   an AssetStorage, either a FileStorage on one preserved  *)
(*                 directory or an InMemoryStorage                         *)
(*   SpecRead      the two registries and read()                           *)
(*   SpecPipeline  a Pipeline and the generator of one process() call      *)
(*   SpecEquality  Asset.__eq__ applied to pairs of objects                *)
(*   SpecResize    read_jpeg and the resize operator of PillowProcessor    *)
(***************************************************************************)
EXTENDS Integers, Sequences, FiniteSets, TLC

VARIABLES
    backend,    \* which AssetStorage the program uses: "file" or "memory"
    shelf,      \* FileStorage: the persistent shelf, key (decimal string) -> Asset
    idseq,      \* FileStorage: per handle, the next value of _asset_id_sequence (0: no such handle)
    assigned,   \* history: the keys that add has assigned so far on this directory
    nAdds,      \* history: number of completed adds on this directory
    removed,    \* history: whether a remove has deleted an entry of this directory
    fsLast,     \* the last FileStorage operation and how it ended
    balance,    \* history: per asset value, its adds minus its successful removes
    opened,     \* how many times the shelf of the directory is open at present
    assets,     \* InMemoryStorage.assets, a list of Assets
    memLast,    \* the last InMemoryStorage operation and how it ended
    processors, \* the registry of processors, in registration order
    metadata_processors_by_format,  \* the registry of metadata processors, a dict in insertion order
    nMeta,      \* history: number of metadata processors constructed
    constructed, \* history: the format names of the metadata processors constructed
    readLast,   \* the last read() call: its stream, its outcome and the calls it made
    operators,  \* Pipeline.operators
    gen,        \* the generator that Pipeline.process returned
    failing_calls,  \* the failing operator's count of its own invocations
    applied,    \* history: the operator invocations, each with the input it worked for
    results,    \* history: the results the caller has received from the generator
    requests,   \* history: number of results the caller has requested
    outcome,    \* how the caller's last request ended
    failedAt,   \* history: the request at which an operator's failure surfaced (0: none)
    modified,   \* history: whether Pipeline.add was called after process()
    eqLast,     \* the last comparison self == other: its operands and its results
    heap,       \* the Asset objects made by read_jpeg, an object's identity being its index
    configured, \* the configured operator that PillowProcessor.resize(**kwargs) returned
    resizeLast  \* the last operation of the image module and how it ended

fileVars == <<shelf, idseq, assigned, nAdds, removed, fsLast, balance, opened>>
memVars == <<assets, memLast>>
storageVars == <<backend, fileVars, memVars>>
readVars == <<processors, metadata_processors_by_format, nMeta, constructed, readLast>>
pipeVars == <<operators, gen, failing_calls, applied, results, requests, outcome,
              failedAt, modified>>
valueVars == <<eqLast>>
imageVars == <<heap, configured, resizeLast>>
otherVars == <<valueVars, imageVars>>
vars == <<storageVars, readVars, pipeVars, otherVars>>

(***************************************************************************)
(* Bounds of the model.                                                    *)
(***************************************************************************)
MaxAdds == 10       \* adds performed on one directory
MaxStored == 2      \* entries the shelf holds at once
MaxAssets == 3      \* length of InMemoryStorage.assets
MaxKwargs == 2      \* keyword arguments given to InMemoryStorage.get
MaxProcessors == 2  \* processors constructed
MaxMetadataProcessors == 3  \* metadata processors constructed
MaxOperators == 2   \* length of Pipeline.operators
MaxInputs == 5      \* assets given to one Pipeline.process call
MaxRaceAdds == 4    \* adds made in all through two handles on one directory
MaxDim == 4         \* width and height of an image, and of a resize target

(***************************************************************************)
(* Mappings (Python dicts) and the Asset value object.                     *)
(***************************************************************************)
EmptyMap == [k \in {} |-> "None"]

MapSet(m, key, value) ==
    [k \in (DOMAIN m) \cup {key} |-> IF k = key THEN value ELSE m[k]]

MapDel(m, key) == [k \in (DOMAIN m) \ {key} |-> m[k]]

\* dict.get(key, None)
MapGet(m, key) == IF key \in DOMAIN m THEN m[key] ELSE "None"

\* Asset.__init__
Asset ==
    [essence_data |-> <<>>,
     metadata |-> [n \in {"madam"} |-> EmptyMap],
     mime_type |-> "None"]

\* Asset.__setitem__: asset[key] = value writes the internal namespace only
SetItem(asset, key, value) ==
    [asset EXCEPT !.metadata =
        MapSet(asset.metadata, "madam", MapSet(asset.metadata["madam"], key, value))]

\* Asset.__getitem__
GetItem(asset, key) == asset.metadata["madam"][key]

\* Asset.__eq__ between two Assets: equality of the instance dictionaries
AssetEq(a, b) ==
    /\ a.essence_data = b.essence_data
    /\ a.metadata = b.metadata
    /\ a.mime_type = b.mime_type

\* The assets the storages are exercised with, built the way a reader builds them.
JpegSmall == SetItem(SetItem(Asset, "mime_type", "image/jpeg"), "width", "1")
JpegLarge == SetItem(SetItem(Asset, "mime_type", "image/jpeg"), "width", "2")
Mp3 == SetItem(Asset, "mime_type", "audio/mpeg")

FileAssets == {JpegSmall, Mp3}
MemAssets == {JpegSmall, JpegLarge, Mp3}

(***************************************************************************)
(* Decimal keys: str(int) and int(str).                                    *)
(***************************************************************************)
Digits == <<"0", "1", "2", "3", "4", "5", "6", "7", "8", "9">>

DigitVal(c) == CHOOSE d \in 0..9 : Digits[d + 1] = c

RECURSIVE Str(_)
Str(n) ==
    IF n < 10 THEN <<Digits[n + 1]>>
    ELSE Str(n \div 10) \o <<Digits[(n % 10) + 1]>>

RECURSIVE IntOf(_)
IntOf(s) ==
    IF Len(s) = 1 THEN DigitVal(s[1])
    ELSE 10 * IntOf(SubSeq(s, 1, Len(s) - 1)) + DigitVal(s[Len(s)])

Max(S) == CHOOSE x \in S : \A y \in S : y <= x

\* lexicographic order on strings, as max() of str keys would compare them
RECURSIVE StrLess(_, _)
StrLess(s, t) ==
    IF Len(t) = 0 THEN FALSE
    ELSE IF Len(s) = 0 THEN TRUE
    ELSE IF s[1] # t[1] THEN DigitVal(s[1]) < DigitVal(t[1])
    ELSE StrLess(Tail(s), Tail(t))

StrMax(S) == CHOOSE x \in S : \A y \in S : y = x \/ StrLess(y, x)

(***************************************************************************)
(* FileStorage                                                             *)
(***************************************************************************)
Handles == {1, 2}

NoKey == <<>>

FsOp(op, h, asset, key, raised) ==
    [op |-> op, h |-> h, asset |-> asset, key |-> key, raised |-> raised,
     contained |-> FALSE, listed |-> <<>>]

\* with shelve.open(self.shelf_path) as assets: the shelf is opened on entry
ShelfOpen(n) == n + 1

\* a mutant of the with statement: the shelf stays open on exit
ShelfLeftOpen(n) == n

\* ... and closed on exit, whether the block returns or raises
ShelfClose(n) == n - 1

\* the orders in which the keys of a shelf can be listed
Orders(keys) ==
    {o \in [1..Cardinality(keys) -> keys] : \A i, j \in DOMAIN o : i # j => o[i] # o[j]}

\* list(assets.values()): the values of the shelf, in an order the dbm chooses
Listings(sh) == {[i \in DOMAIN o |-> sh[o[i]]] : o \in Orders(DOMAIN sh)}

\* the values of the shelf equal to an asset, by their keys
KeysOf(sh, asset) == {k \in DOMAIN sh : AssetEq(sh[k], asset)}

\* FileStorage.__contains__
Contains(sh, asset) == \E k \in DOMAIN sh : AssetEq(sh[k], asset)

\* a mutant of the constructor's scan: the largest key as a string
MaxStoredAssetIdByString(sh) ==
    IF DOMAIN sh # {} THEN IntOf(StrMax(DOMAIN sh)) ELSE 0

\* max(map(int, assets.keys())) if assets.keys() else 0
MaxStoredAssetId(sh) ==
    IF DOMAIN sh # {} THEN Max({IntOf(k) : k \in DOMAIN sh}) ELSE 0

\* FileStorage.__init__ on the directory: handle h starts counting after the scan
Open(h) ==
    /\ idseq' = [idseq EXCEPT ![h] = MaxStoredAssetId(shelf) + 1]
    /\ fsLast' = FsOp("open", h, Asset, NoKey, "None")
    /\ opened' = ShelfClose(ShelfOpen(opened))
    /\ UNCHANGED <<shelf, assigned, nAdds, removed, balance>>

\* a mutant of add: the identifier skips the keys already on the shelf
AddAtFreeKey(h, asset) ==
    /\ idseq[h] > 0
    /\ nAdds < MaxAdds
    /\ Cardinality(DOMAIN shelf) < MaxStored
    /\ LET asset_id == Max({idseq[h], MaxStoredAssetId(shelf) + 1}) IN
        /\ idseq' = [idseq EXCEPT ![h] = asset_id + 1]
        /\ shelf' = MapSet(shelf, Str(asset_id), asset)
        /\ assigned' = assigned \cup {Str(asset_id)}
        /\ fsLast' = FsOp("add", h, asset, Str(asset_id), "None")
    /\ nAdds' = nAdds + 1
    /\ balance' = [balance EXCEPT ![asset] = @ + 1]
    /\ opened' = ShelfClose(ShelfOpen(opened))
    /\ UNCHANGED removed

\* FileStorage.add
Add(h, asset) ==
    /\ idseq[h] > 0
    /\ nAdds < MaxAdds
    /\ Cardinality(DOMAIN shelf) < MaxStored
    /\ LET asset_id == idseq[h] IN
        /\ idseq' = [idseq EXCEPT ![h] = asset_id + 1]
        /\ shelf' = MapSet(shelf, Str(asset_id), asset)
        /\ assigned' = assigned \cup {Str(asset_id)}
        /\ fsLast' = FsOp("add", h, asset, Str(asset_id), "None")
    /\ nAdds' = nAdds + 1
    /\ balance' = [balance EXCEPT ![asset] = @ + 1]
    /\ opened' = ShelfClose(ShelfOpen(opened))
    /\ UNCHANGED removed

\* a mutant of remove: an unknown asset is ignored
RemoveSilently(h, asset) ==
    /\ idseq[h] > 0
    /\ IF Contains(shelf, asset)
       THEN \E key \in KeysOf(shelf, asset) :
                /\ shelf' = MapDel(shelf, key)
                /\ removed' = TRUE
                /\ balance' = [balance EXCEPT ![asset] = @ - 1]
                /\ fsLast' = FsOp("remove", h, asset, key, "None")
       ELSE /\ fsLast' = FsOp("remove", h, asset, NoKey, "None")
            /\ UNCHANGED <<shelf, removed, balance>>
    /\ opened' = ShelfClose(ShelfOpen(opened))
    /\ UNCHANGED <<idseq, assigned, nAdds>>

\* a mutant of remove: every entry equal to the asset is deleted
RemoveEvery(h, asset) ==
    /\ idseq[h] > 0
    /\ IF Contains(shelf, asset)
       THEN \E key \in KeysOf(shelf, asset) :
                /\ shelf' = [k \in DOMAIN shelf \ KeysOf(shelf, asset) |-> shelf[k]]
                /\ removed' = TRUE
                /\ balance' = [balance EXCEPT ![asset] = @ - 1]
                /\ fsLast' = FsOp("remove", h, asset, key, "None")
       ELSE /\ fsLast' = FsOp("remove", h, asset, NoKey, "ValueError")
            /\ UNCHANGED <<shelf, removed, balance>>
    /\ opened' = ShelfClose(ShelfOpen(opened))
    /\ UNCHANGED <<idseq, assigned, nAdds>>

\* FileStorage.remove: the first entry found equal to the asset is deleted; the
\* order in which the dbm behind the shelf lists its entries is its own
Remove(h, asset) ==
    /\ idseq[h] > 0
    /\ IF Contains(shelf, asset)
       THEN \E key \in KeysOf(shelf, asset) :
                /\ shelf' = MapDel(shelf, key)
                /\ removed' = TRUE
                /\ balance' = [balance EXCEPT ![asset] = @ - 1]
                /\ fsLast' = FsOp("remove", h, asset, key, "None")
       ELSE /\ fsLast' = FsOp("remove", h, asset, NoKey, "ValueError")
            /\ UNCHANGED <<shelf, removed, balance>>
    /\ opened' = ShelfClose(ShelfOpen(opened))
    /\ UNCHANGED <<idseq, assigned, nAdds>>

\* asset in storage (FileStorage.__contains__)
IsStored(h, asset) ==
    /\ idseq[h] > 0
    /\ fsLast' = [FsOp("contains", h, asset, NoKey, "None")
                    EXCEPT !.contained = Contains(shelf, asset)]
    /\ opened' = ShelfClose(ShelfOpen(opened))
    /\ UNCHANGED <<shelf, idseq, assigned, nAdds, removed, balance>>

\* iter(storage) (FileStorage.__iter__): an iterator over a list made while
\* the shelf is open
Iter(h) ==
    /\ idseq[h] > 0
    /\ \E values \in Listings(shelf) :
            fsLast' = [FsOp("iter", h, Asset, NoKey, "None") EXCEPT !.listed = values]
    /\ opened' = ShelfClose(ShelfOpen(opened))
    /\ UNCHANGED <<shelf, idseq, assigned, nAdds, removed, balance>>

\* FileStorage(path) on a fresh directory, through handle 1
InitFile ==
    /\ shelf = EmptyMap
    /\ idseq = [h \in Handles |-> IF h = 1 THEN MaxStoredAssetId(EmptyMap) + 1 ELSE 0]
    /\ assigned = {}
    /\ nAdds = 0
    /\ removed = FALSE
    /\ fsLast = FsOp("open", 1, Asset, NoKey, "None")
    /\ balance = [a \in FileAssets |-> 0]
    /\ opened = ShelfClose(ShelfOpen(0))

FileAdd ==
    /\ backend = "file"
    /\ \E a \in FileAssets : Add(1, a)
    /\ UNCHANGED <<backend, memVars, readVars, pipeVars, otherVars>>
FileRemove ==
    /\ backend = "file"
    /\ \E a \in FileAssets : Remove(1, a)
    /\ UNCHANGED <<backend, memVars, readVars, pipeVars, otherVars>>
FileReopen ==
    /\ backend = "file"
    /\ Open(1)
    /\ UNCHANGED <<backend, memVars, readVars, pipeVars, otherVars>>
\* the same operations through either of two handles on the directory
HandleOpen ==
    /\ backend = "file"
    /\ \E h \in Handles : Open(h)
    /\ UNCHANGED <<backend, memVars, readVars, pipeVars, otherVars>>
HandleAdd ==
    /\ backend = "file"
    /\ nAdds < MaxRaceAdds
    /\ \E h \in Handles, a \in FileAssets : Add(h, a)
    /\ UNCHANGED <<backend, memVars, readVars, pipeVars, otherVars>>
HandleRemove ==
    /\ backend = "file"
    /\ \E h \in Handles, a \in FileAssets : Remove(h, a)
    /\ UNCHANGED <<backend, memVars, readVars, pipeVars, otherVars>>
HandleContains ==
    /\ backend = "file"
    /\ \E h \in Handles, a \in FileAssets : IsStored(h, a)
    /\ UNCHANGED <<backend, memVars, readVars, pipeVars, otherVars>>
FileContains ==
    /\ backend = "file"
    /\ \E a \in FileAssets : IsStored(1, a)
    /\ UNCHANGED <<backend, memVars, readVars, pipeVars, otherVars>>
FileIter ==
    /\ backend = "file"
    /\ Iter(1)
    /\ UNCHANGED <<backend, memVars, readVars, pipeVars, otherVars>>

(***************************************************************************)
(* InMemoryStorage                                                         *)
(***************************************************************************)
MemOp(op, asset, kwargs, result, raised) ==
    [op |-> op, asset |-> asset, kwargs |-> kwargs, result |-> result, raised |-> raised]

\* InMemoryStorage.__contains__
MemContains(list, asset) == \E i \in 1..Len(list) : AssetEq(list[i], asset)

\* list.remove: the first element equal to the asset
FirstIndex(list, asset) ==
    CHOOSE i \in 1..Len(list) :
        /\ AssetEq(list[i], asset)
        /\ \A j \in 1..(i - 1) : ~AssetEq(list[j], asset)

DropAt(list, i) == SubSeq(list, 1, i - 1) \o SubSeq(list, i + 1, Len(list))

\* InMemoryStorage.add
MemAdd(asset) ==
    /\ Len(assets) < MaxAssets
    /\ assets' = Append(assets, asset)
    /\ memLast' = MemOp("add", asset, <<>>, <<>>, "None")

\* InMemoryStorage.remove: list.remove raises ValueError when nothing is equal
MemRemove(asset) ==
    /\ IF MemContains(assets, asset)
       THEN /\ assets' = DropAt(assets, FirstIndex(assets, asset))
            /\ memLast' = MemOp("remove", asset, <<>>, <<>>, "None")
       ELSE /\ assets' = assets
            /\ memLast' = MemOp("remove", asset, <<>>, <<>>, "ValueError")

\* the inner loop of get for one asset: one append per matching keyword argument
RECURSIVE MatchesOf(_, _)
MatchesOf(asset, kwargs) ==
    IF kwargs = <<>> THEN <<>>
    ELSE LET key == kwargs[1][1]
             value == kwargs[1][2]
             madam_metadata == asset.metadata["madam"]
         IN (IF MapGet(madam_metadata, key) = value THEN <<asset>> ELSE <<>>)
                \o MatchesOf(asset, Tail(kwargs))

\* InMemoryStorage.get: the outer loop over self.assets
RECURSIVE GetMatches(_, _)
GetMatches(list, kwargs) ==
    IF list = <<>> THEN <<>>
    ELSE MatchesOf(list[1], kwargs) \o GetMatches(Tail(list), kwargs)

MetaKeys == {"mime_type", "width"}
MetaValues == {"image/jpeg", "audio/mpeg", "1", "2", "None"}

\* **kwargs: keyword arguments in call order, each key given once
IsKwargs(kw) == \A i, j \in 1..Len(kw) : i # j => kw[i][1] # kw[j][1]
Kwargs ==
    UNION {{kw \in [1..n -> MetaKeys \X MetaValues] : IsKwargs(kw)} : n \in 0..MaxKwargs}

MemGet(kwargs) ==
    /\ memLast' = MemOp("get", Asset, kwargs, GetMatches(assets, kwargs), "None")
    /\ UNCHANGED assets

\* InMemoryStorage()
InitMem ==
    /\ assets = <<>>
    /\ memLast = MemOp("init", Asset, <<>>, <<>>, "None")

MemoryAdd ==
    /\ backend = "memory"
    /\ \E a \in MemAssets : MemAdd(a)
    /\ UNCHANGED <<backend, fileVars, readVars, pipeVars, otherVars>>
MemoryRemove ==
    /\ backend = "memory"
    /\ \E a \in MemAssets : MemRemove(a)
    /\ UNCHANGED <<backend, fileVars, readVars, pipeVars, otherVars>>
MemoryGet ==
    /\ backend = "memory"
    /\ \E kw \in Kwargs : MemGet(kw)
    /\ UNCHANGED <<backend, fileVars, readVars, pipeVars, otherVars>>

(***************************************************************************)
(* The registries and read()                                               *)
(*                                                                         *)
(* A stream is known by the kind of its content; a processor by the order  *)
(* of its construction and the kinds it claims; a metadata processor by    *)
(* its format name, the order of its construction and the kinds of content *)
(* its read raises on.  Positions of the stream: 0 is the start, 1 is      *)
(* anywhere past it.                                                       *)
(***************************************************************************)
Streams == {"jpeg", "mp3"}
Formats == {"exif", "id3"}

Call(call, who, pos) == [call |-> call, who |-> who, pos |-> pos]

\* Processor.can_read of a processor, which leaves the stream where it was
CanRead(processor, file) == file \in processor.claims

\* Processor.read of a processor: the asset it builds from the stream; a reader
\* of JPEG content stores the EXIF data it separated, as read_jpeg does
ProcessorRead(processor, file) ==
    LET asset == SetItem(SetItem(Asset, "mime_type", file), "processor", processor.id)
    IN IF file = "jpeg"
       THEN [asset EXCEPT !.metadata =
                MapSet(asset.metadata, "exif", [embedded_by |-> processor.id])]
       ELSE asset

\* MetadataProcessor.read of a metadata processor, where it does not raise
MetadataRead(metadata_processor, file) == [extracted_by |-> metadata_processor.id]

MetadataReadRaises(metadata_processor, file) == file \in metadata_processor.fails

\* where a read leaves the stream: a content processor at the end of the
\* stream, a metadata processor after the part that it parsed
StreamEnd(file) == IF file = "jpeg" THEN 3 ELSE 2

AfterMetadataRead(metadata_processor, file) ==
    IF MetadataReadRaises(metadata_processor, file) THEN 1 ELSE StreamEnd(file) - 1

\* a mutant of the rewind: the stream stays where it is
SeekNowhere(pos, offset) == pos

\* file.seek(offset): the position of the stream afterwards
Seek(pos, offset) == offset

\* Processor.__init__
NewProcessor(claims) ==
    /\ Len(processors) < MaxProcessors
    /\ processors' = Append(processors, [id |-> Len(processors) + 1, claims |-> claims])
    /\ UNCHANGED <<metadata_processors_by_format, nMeta, constructed, readLast>>

\* a mutant of the assignment: a known key keeps its value
DictSetKeepingFirst(dict, key, value) ==
    IF \E i \in 1..Len(dict) : dict[i].key = key
    THEN dict
    ELSE Append(dict, [key |-> key, value |-> value])

\* dict[key] = value: a new key goes last, a known key keeps its place
DictSet(dict, key, value) ==
    IF \E i \in 1..Len(dict) : dict[i].key = key
    THEN [i \in 1..Len(dict) |->
            IF dict[i].key = key THEN [key |-> key, value |-> value] ELSE dict[i]]
    ELSE Append(dict, [key |-> key, value |-> value])

\* MetadataProcessor.__init__
NewMetadataProcessor(format, fails) ==
    /\ nMeta < MaxMetadataProcessors
    /\ nMeta' = nMeta + 1
    /\ constructed' = Append(constructed, format)
    /\ metadata_processors_by_format' =
            DictSet(metadata_processors_by_format, format,
                    [id |-> nMeta + 1, format |-> format, fails |-> fails])
    /\ UNCHANGED <<processors, readLast>>

\* a mutant of the selection: the last registered processor that claims the stream
LastSupporting(procs, file) ==
    IF \E i \in 1..Len(procs) : CanRead(procs[i], file)
    THEN Max({i \in 1..Len(procs) : CanRead(procs[i], file)})
    ELSE 0

\* a mutant of the selection: when nothing claims the stream, the first processor
FirstSupportingOrFirst(procs, file) ==
    IF \E i \in 1..Len(procs) : CanRead(procs[i], file)
    THEN CHOOSE i \in 1..Len(procs) :
            /\ CanRead(procs[i], file)
            /\ \A j \in 1..(i - 1) : ~CanRead(procs[j], file)
    ELSE IF Len(procs) > 0 THEN 1 ELSE 0

\* next((processor for processor in processors if processor.can_read(file)), None):
\* the index of the first processor that claims the stream, 0 for None
FirstSupporting(procs, file) ==
    IF \E i \in 1..Len(procs) : CanRead(procs[i], file)
    THEN CHOOSE i \in 1..Len(procs) :
            /\ CanRead(procs[i], file)
            /\ \A j \in 1..(i - 1) : ~CanRead(procs[j], file)
    ELSE 0

\* the can_read calls the generator makes: one per processor, in order, up to the
\* selected one, or all of them when none is selected
CanReadCalls(procs, selected) ==
    [i \in 1..(IF selected = 0 THEN Len(procs) ELSE selected) |->
        Call("can_read", procs[i].id, 0)]

\* a mutant of the metadata loop: the first failure ends the loop
RECURSIVE ReadMetadataUntilFailure(_, _, _)
ReadMetadataUntilFailure(dict, file, st) ==
    IF dict = <<>> THEN st
    ELSE LET metadata_format == dict[1].key
             metadata_processor == dict[1].value
             sought == Append(st.calls, Call("seek", 0, st.pos))
             start == Seek(st.pos, 0)
             called == Append(sought, Call("metadata_read", metadata_processor.id, start))
         IN IF MetadataReadRaises(metadata_processor, file)
            THEN [asset |-> st.asset, calls |-> called,
                  pos |-> AfterMetadataRead(metadata_processor, file)]
            ELSE ReadMetadataUntilFailure(Tail(dict), file,
                    [asset |-> [st.asset EXCEPT !.metadata =
                                    MapSet(st.asset.metadata, metadata_format,
                                           MetadataRead(metadata_processor, file))],
                     calls |-> called,
                     pos |-> AfterMetadataRead(metadata_processor, file)])

\* the loop of read() over metadata_processors_by_format.items(): rewind, read,
\* store the result under the format name; whatever the read raises is dropped
RECURSIVE ReadMetadata(_, _, _)
ReadMetadata(dict, file, st) ==
    IF dict = <<>> THEN st
    ELSE LET metadata_format == dict[1].key
             metadata_processor == dict[1].value
             sought == Append(st.calls, Call("seek", 0, st.pos))
             start == Seek(st.pos, 0)
             called == Append(sought, Call("metadata_read", metadata_processor.id, start))
         IN ReadMetadata(Tail(dict), file,
                [asset |-> IF MetadataReadRaises(metadata_processor, file)
                           THEN st.asset
                           ELSE [st.asset EXCEPT !.metadata =
                                    MapSet(st.asset.metadata, metadata_format,
                                           MetadataRead(metadata_processor, file))],
                 calls |-> called,
                 pos |-> AfterMetadataRead(metadata_processor, file)])

\* read(file)
Read(file) ==
    LET selected == FirstSupporting(processors, file)
        probes == CanReadCalls(processors, selected)
    IN /\ IF selected = 0
          THEN readLast' = [file |-> file, raised |-> "UnsupportedFormatError",
                            returned |-> FALSE, asset |-> Asset,
                            calls |-> probes, pos |-> 0]
          ELSE LET processor == processors[selected]
                   st == ReadMetadata(metadata_processors_by_format, file,
                            [asset |-> ProcessorRead(processor, file),
                             calls |-> Append(probes, Call("read", processor.id, 0)),
                             pos |-> StreamEnd(file)])
               IN readLast' = [file |-> file, raised |-> "None",
                               returned |-> TRUE, asset |-> st.asset,
                               calls |-> st.calls, pos |-> st.pos]
       /\ UNCHANGED <<processors, metadata_processors_by_format, nMeta, constructed>>

\* the registries of a freshly imported madam.core, before any read
InitRead ==
    /\ processors = <<>>
    /\ metadata_processors_by_format = <<>>
    /\ nMeta = 0
    /\ constructed = <<>>
    /\ readLast = [file |-> "none", raised |-> "None", returned |-> FALSE,
                   asset |-> Asset, calls |-> <<>>, pos |-> 0]

RegisterProcessor ==
    \E claims \in SUBSET Streams : NewProcessor(claims) /\ UNCHANGED <<storageVars, pipeVars, otherVars>>
RegisterMetadataProcessor ==
    \E format \in Formats, fails \in SUBSET Streams :
        NewMetadataProcessor(format, fails) /\ UNCHANGED <<storageVars, pipeVars, otherVars>>
ReadStream == \E file \in Streams : Read(file) /\ UNCHANGED <<storageVars, pipeVars, otherVars>>

(***************************************************************************)
(* Pipeline                                                                *)
(*                                                                         *)
(* The operators a pipeline is exercised with: "toggle" and "enlarge"      *)
(* return a new asset with another width, "raise_on_third" returns its     *)
(* input and raises on its third invocation.  The program calls process()  *)
(* once and requests results from the generator with next().               *)
(***************************************************************************)
OperatorNames == {"toggle", "enlarge", "raise_on_third"}
PipeAssets == {JpegSmall, JpegLarge}

\* operator(processed_asset), where it returns
Apply(operator, asset) ==
    CASE operator = "toggle" ->
            SetItem(asset, "width", IF GetItem(asset, "width") = "1" THEN "2" ELSE "1")
      [] operator = "enlarge" -> SetItem(asset, "width", "2")
      [] operator = "raise_on_third" -> asset

\* whether the invocation of the operator raises, given the invocations it has seen
Raises(operator, calls) == operator = "raise_on_third" /\ calls = 3

\* a mutant of the inner loop: the operators are applied last to first
RECURSIVE FoldReversed(_, _, _, _)
FoldReversed(ops, processed_asset, input, st) ==
    IF ops = <<>>
    THEN [raised |-> FALSE, asset |-> processed_asset, calls |-> st.calls, applied |-> st.applied]
    ELSE LET operator == ops[Len(ops)]
             calls == IF operator = "raise_on_third" THEN st.calls + 1 ELSE st.calls
             log == Append(st.applied, [operator |-> operator, input |-> input])
         IN IF Raises(operator, calls)
            THEN [raised |-> TRUE, asset |-> processed_asset, calls |-> calls, applied |-> log]
            ELSE FoldReversed(SubSeq(ops, 1, Len(ops) - 1), Apply(operator, processed_asset),
                              input, [calls |-> calls, applied |-> log])

\* for operator in self.operators: processed_asset = operator(processed_asset)
RECURSIVE Fold(_, _, _, _)
Fold(ops, processed_asset, input, st) ==
    IF ops = <<>>
    THEN [raised |-> FALSE, asset |-> processed_asset, calls |-> st.calls, applied |-> st.applied]
    ELSE LET operator == ops[1]
             calls == IF operator = "raise_on_third" THEN st.calls + 1 ELSE st.calls
             log == Append(st.applied, [operator |-> operator, input |-> input])
         IN IF Raises(operator, calls)
            THEN [raised |-> TRUE, asset |-> processed_asset, calls |-> calls, applied |-> log]
            ELSE Fold(Tail(ops), Apply(operator, processed_asset), input,
                      [calls |-> calls, applied |-> log])

\* Pipeline.add
PipelineAdd(operator) ==
    /\ Len(operators) < MaxOperators
    /\ operators' = Append(operators, operator)
    /\ modified' = (modified \/ gen.state # "none")
    /\ UNCHANGED <<gen, failing_calls, applied, results, requests, outcome, failedAt>>

\* Pipeline.process(*assets): a generator function, so the call runs none of its body
Process(inputs) ==
    /\ gen.state = "none"
    /\ gen' = [state |-> "created", assets |-> inputs, i |-> 0]
    /\ UNCHANGED <<operators, failing_calls, applied, results, requests, outcome,
                   failedAt, modified>>

\* a mutant of the generator: it also folds the input after the requested one
NextResultPrefetching ==
    /\ gen.state # "none"
    /\ outcome # "StopIteration"
    /\ requests' = requests + 1
    /\ UNCHANGED <<operators, modified>>
    /\ IF gen.state = "done" \/ gen.i = Len(gen.assets)
       THEN /\ gen' = [gen EXCEPT !.state = "done"]
            /\ outcome' = "StopIteration"
            /\ UNCHANGED <<failing_calls, applied, results, failedAt>>
       ELSE LET run == Fold(operators, gen.assets[gen.i + 1], gen.i + 1,
                            [calls |-> failing_calls, applied |-> applied])
                ahead == IF run.raised \/ gen.i + 2 > Len(gen.assets) THEN run
                         ELSE Fold(operators, gen.assets[gen.i + 2], gen.i + 2,
                                   [calls |-> run.calls, applied |-> run.applied])
            IN /\ failing_calls' = ahead.calls
               /\ applied' = ahead.applied
               /\ IF run.raised
                  THEN /\ gen' = [gen EXCEPT !.state = "done"]
                       /\ outcome' = "raised"
                       /\ failedAt' = requests + 1
                       /\ UNCHANGED results
                  ELSE /\ gen' = [gen EXCEPT !.state = "suspended", !.i = gen.i + 1]
                       /\ outcome' = "yielded"
                       /\ results' = Append(results, run.asset)
                       /\ UNCHANGED failedAt

\* a mutant of the generator: an operator's failure is dropped with its input
NextResultSkipping ==
    /\ gen.state # "none"
    /\ outcome # "StopIteration"
    /\ requests' = requests + 1
    /\ UNCHANGED <<operators, modified>>
    /\ IF gen.state = "done" \/ gen.i = Len(gen.assets)
       THEN /\ gen' = [gen EXCEPT !.state = "done"]
            /\ outcome' = "StopIteration"
            /\ UNCHANGED <<failing_calls, applied, results, failedAt>>
       ELSE LET run == Fold(operators, gen.assets[gen.i + 1], gen.i + 1,
                            [calls |-> failing_calls, applied |-> applied])
            IN /\ failing_calls' = run.calls
               /\ applied' = run.applied
               /\ gen' = [gen EXCEPT !.state = "suspended", !.i = gen.i + 1]
               /\ outcome' = "yielded"
               /\ results' = IF run.raised THEN results ELSE Append(results, run.asset)
               /\ UNCHANGED failedAt

\* the operators invoked so far on the k-th input, in the order of invocation
InvokedOn(log, k) ==
    LET of == SelectSeq(log, LAMBDA entry : entry.input = k)
    IN [n \in 1..Len(of) |-> of[n].operator]

\* a mutant of the generator: it keeps the operator list of its first result
NextResultFrozen ==
    /\ gen.state # "none"
    /\ outcome # "StopIteration"
    /\ requests' = requests + 1
    /\ UNCHANGED <<operators, modified>>
    /\ IF gen.state = "done" \/ gen.i = Len(gen.assets)
       THEN /\ gen' = [gen EXCEPT !.state = "done"]
            /\ outcome' = "StopIteration"
            /\ UNCHANGED <<failing_calls, applied, results, failedAt>>
       ELSE LET frozen == IF gen.i = 0 THEN operators ELSE InvokedOn(applied, 1)
                run == Fold(frozen, gen.assets[gen.i + 1], gen.i + 1,
                            [calls |-> failing_calls, applied |-> applied])
            IN /\ failing_calls' = run.calls
               /\ applied' = run.applied
               /\ IF run.raised
                  THEN /\ gen' = [gen EXCEPT !.state = "done"]
                       /\ outcome' = "raised"
                       /\ failedAt' = requests + 1
                       /\ UNCHANGED results
                  ELSE /\ gen' = [gen EXCEPT !.state = "suspended", !.i = gen.i + 1]
                       /\ outcome' = "yielded"
                       /\ results' = Append(results, run.asset)
                       /\ UNCHANGED failedAt

\* next() on the generator: the body of process runs from where it was suspended
\* to its next yield, to the exception of an operator, or to its end
NextResult ==
    /\ gen.state # "none"
    /\ outcome # "StopIteration"
    /\ requests' = requests + 1
    /\ UNCHANGED <<operators, modified>>
    /\ IF gen.state = "done" \/ gen.i = Len(gen.assets)
       THEN /\ gen' = [gen EXCEPT !.state = "done"]
            /\ outcome' = "StopIteration"
            /\ UNCHANGED <<failing_calls, applied, results, failedAt>>
       ELSE LET run == Fold(operators, gen.assets[gen.i + 1], gen.i + 1,
                            [calls |-> failing_calls, applied |-> applied])
            IN /\ failing_calls' = run.calls
               /\ applied' = run.applied
               /\ IF run.raised
                  THEN /\ gen' = [gen EXCEPT !.state = "done"]
                       /\ outcome' = "raised"
                       /\ failedAt' = requests + 1
                       /\ UNCHANGED results
                  ELSE /\ gen' = [gen EXCEPT !.state = "suspended", !.i = gen.i + 1]
                       /\ outcome' = "yielded"
                       /\ results' = Append(results, run.asset)
                       /\ UNCHANGED failedAt

\* Pipeline()
InitPipe ==
    /\ operators = <<>>
    /\ gen = [state |-> "none", assets |-> <<>>, i |-> 0]
    /\ failing_calls = 0
    /\ applied = <<>>
    /\ results = <<>>
    /\ requests = 0
    /\ outcome = "none"
    /\ failedAt = 0
    /\ modified = FALSE

InputTuples == UNION {[1..n -> PipeAssets] : n \in 0..MaxInputs}

AddOperator ==
    \E operator \in OperatorNames :
        PipelineAdd(operator) /\ UNCHANGED <<storageVars, readVars, otherVars>>
CallProcess ==
    \E inputs \in InputTuples : Process(inputs) /\ UNCHANGED <<storageVars, readVars, otherVars>>
RequestResult == NextResult /\ UNCHANGED <<storageVars, readVars, otherVars>>

(***************************************************************************)
(* Asset.__eq__                                                            *)
(*                                                                         *)
(* An object is known by its identity, its class and its instance          *)
(* dictionary.  Assets are made by Asset.__init__ and assignments to its   *)
(* three attributes; the other objects carry the same attributes under     *)
(* another class.                                                          *)
(***************************************************************************)
Object(id, class, dict) == [id |-> id, class |-> class, dict |-> dict]

AssetDicts ==
    {[essence_data |-> e, metadata |-> m, mime_type |-> t] :
        e \in {Asset.essence_data, <<255, 216>>},
        m \in {Asset.metadata, JpegSmall.metadata},
        t \in {Asset.mime_type, "image/jpeg"}}

AssetObjects == {Object(id, "Asset", d) : id \in {1, 2}, d \in AssetDicts}
OtherObjects == {Object(3, "SimpleNamespace", d) : d \in AssetDicts}

\* isinstance(other, self.__class__); Asset has no subclass
IsInstance(obj, class) == obj.class = class

\* a mutant of __eq__: the comparison of object, by identity
EqByIdentity(self, other) == other.id = self.id

\* Asset.__eq__(self, other)
Eq(self, other) ==
    IF IsInstance(other, self.class) THEN other.dict = self.dict ELSE FALSE

\* self == other, and other == self where other is an Asset too
Compare(self, other) ==
    eqLast' = [op |-> "eq", self |-> self, other |-> other,
               result |-> Eq(self, other),
               reflected |-> IF other.class = "Asset" THEN Eq(other, self) ELSE FALSE]

InitEq ==
    eqLast = [op |-> "none", self |-> Object(1, "Asset", Asset),
              other |-> Object(1, "Asset", Asset), result |-> FALSE, reflected |-> FALSE]

CompareObjects ==
    /\ \E self \in AssetObjects, other \in AssetObjects \cup OtherObjects :
            Compare(self, other)
    /\ UNCHANGED <<storageVars, readVars, pipeVars, imageVars>>

(***************************************************************************)
(* read_jpeg and PillowProcessor.resize (src/adam/image.py)                *)
(*                                                                         *)
(* An image is known by its width and height; its JPEG bytes encode them.  *)
(* The files read carry no EXIF data.  The work done by Pillow is the      *)
(* native work, logged call by call.  The program reads one JPEG file,     *)
(* configures resize operators and applies one to the asset.               *)
(***************************************************************************)
Image(width, height) == [width |-> width, height |-> height]

\* image.save(buffer, 'JPEG'): the bytes of an image
Encode(image) == <<image.width, image.height>>

\* PIL.Image.open(stream): the image of the bytes
Decode(bytes) == Image(bytes[1], bytes[2])

\* read_jpeg(jpeg_file): the internal namespace gets the MIME type and the
\* size, the exif namespace the non-empty EXIF entries, the essence the bytes
ReadJpeg(bytes) ==
    LET image == Decode(bytes)
        named == SetItem(Asset, "mime_type", "image/jpeg")
        sized == SetItem(SetItem(named, "width", image.width), "height", image.height)
    IN [sized EXCEPT !.metadata = MapSet(sized.metadata, "exif", EmptyMap),
                     !.essence_data = bytes]

Modes == {"EXACT", "FIT", "FILL"}

(***************************************************************************)
(* The arithmetic of resize is that of Python floats (IEEE 754 binary64):  *)
(* width/image.width is the quotient rounded to Precision significant      *)
(* bits, resize_factor*image.width the product rounded again, and round()  *)
(* the integer nearest to that float, a half going to the even one.  A     *)
(* float of positive value is its significant bits, first bit first, and   *)
(* the power of two that the last of them counts.                          *)
(***************************************************************************)
Precision == 53

\* the product is formed on the bits in pieces of this many, so that a piece
\* times a side below 4096 is a number that the model checker can hold
PieceBits == 18

\* the number that the bits spell, first bit first
RECURSIVE BitsValue(_)
BitsValue(bits) ==
    IF Len(bits) = 0 THEN 0
    ELSE IF Len(bits) = 1 THEN bits[1]
    ELSE LET low == Len(bits) \div 2
         IN BitsValue(SubSeq(bits, 1, Len(bits) - low)) * 2 ^ low
                + BitsValue(SubSeq(bits, Len(bits) - low + 1, Len(bits)))

\* the last w bits of v, first bit first
ToBits(v, w) == [i \in 1..w |-> (v \div 2 ^ (w - i)) % 2]

\* the number of bits of v >= 0 from its first set bit on
BitLength(v) == Cardinality({i \in 0..30 : 2 ^ i <= v})

Zeros(n) == [i \in 1..n |-> 0]

\* bits + 1 in as many bits; when all bits were set, the first bit of the sum
\* followed by zeros, carried telling that a bit was dropped
Increment(bits) ==
    IF \A i \in DOMAIN bits : bits[i] = 1
    THEN [bits |-> <<1>> \o Zeros(Len(bits) - 1), carried |-> 1]
    ELSE LET last == Max({i \in DOMAIN bits : bits[i] = 0})
         IN [bits |-> [i \in DOMAIN bits |->
                        IF i < last THEN bits[i] ELSE IF i = last THEN 1 ELSE 0],
             carried |-> 0]

\* bits rounded to n significant bits, to the nearest, a half to the even one;
\* shift is the number of bits dropped
RoundBits(bits, n) ==
    IF Len(bits) <= n
    THEN [bits |-> bits \o Zeros(n - Len(bits)), shift |-> Len(bits) - n]
    ELSE LET kept == SubSeq(bits, 1, n)
             half == bits[n + 1] = 1
             more == \E i \in (n + 2)..Len(bits) : bits[i] = 1
         IN IF half /\ (more \/ kept[n] = 1)
            THEN LET up == Increment(kept)
                 IN [bits |-> up.bits, shift |-> Len(bits) - n + up.carried]
            ELSE [bits |-> kept, shift |-> Len(bits) - n]

\* a / b brought between 1 and 2 by doubling: a / b = (a' / b') * 2^k
Normalised(a, b) ==
    LET k == BitLength(a) - BitLength(b)
        a1 == IF k < 0 THEN a * 2 ^ (0 - k) ELSE a
        b1 == IF k > 0 THEN b * 2 ^ k ELSE b
    IN IF a1 >= b1 THEN [a |-> a1, b |-> b1, k |-> k]
       ELSE [a |-> 2 * a1, b |-> b1, k |-> k - 1]

\* 2^i modulo b
RECURSIVE PowerOfTwoMod(_, _)
PowerOfTwoMod(i, b) ==
    IF i = 0 THEN 1 % b
    ELSE LET root == PowerOfTwoMod(i \div 2, b)
         IN (root * root * (IF i % 2 = 1 THEN 2 ELSE 1)) % b

\* the first n bits of the quotient r / b < 1 by long division, the i-th being
\* set when twice the remainder left after i - 1 bits reaches b, and a last bit
\* for what remains after them
QuotientBits(r, b, n) ==
    [i \in 1..(n + 1) |->
        IF i <= n
        THEN IF 2 * ((r * PowerOfTwoMod(i - 1, b)) % b) >= b THEN 1 ELSE 0
        ELSE IF (r * PowerOfTwoMod(n, b)) % b > 0 THEN 1 ELSE 0]

\* the float n / d, for n > 0 and d > 0
FloatDivide(n, d) ==
    LET nrm == Normalised(n, d)
        bits == <<1>> \o QuotientBits(nrm.a - nrm.b, nrm.b, Precision)
        r == RoundBits(bits, Precision)
    IN [bits |-> r.bits, exp |-> nrm.k - (Precision + 1) + r.shift]

\* bits * x for an integer x > 0, piece by piece from the last, each piece
\* taking the carry of the one after it
TimesBits(bits, x) ==
    LET n == Len(bits)
        low == BitsValue(SubSeq(bits, n - PieceBits + 1, n)) * x
        mid == BitsValue(SubSeq(bits, n - 2 * PieceBits + 1, n - PieceBits)) * x
                    + low \div 2 ^ PieceBits
        top == BitsValue(SubSeq(bits, 1, n - 2 * PieceBits)) * x
                    + mid \div 2 ^ PieceBits
    IN ToBits(top, BitLength(top)) \o ToBits(mid, PieceBits) \o ToBits(low, PieceBits)

\* the float f * x, for an integer x > 0
FloatTimes(f, x) ==
    LET r == RoundBits(TimesBits(f.bits, x), Precision)
    IN [bits |-> r.bits, exp |-> f.exp + r.shift]

\* round(f) of a float of positive value
RoundFloat(f) ==
    IF f.exp >= 0 THEN BitsValue(f.bits) * 2 ^ f.exp
    ELSE LET n == Len(f.bits) + f.exp
         IN IF n < 0 THEN 0
            ELSE LET whole == BitsValue(SubSeq(f.bits, 1, n))
                     half == f.bits[n + 1] = 1
                     more == \E i \in (n + 2)..Len(f.bits) : f.bits[i] = 1
                 IN IF half /\ (more \/ whole % 2 = 1) THEN whole + 1 ELSE whole

\* round((n / d) * side) for d > 0 and side > 0; a negative n gives the negative
\* of the float of its absolute value, and 0 gives 0
RoundScaled(n, d, side) ==
    IF n = 0 THEN 0
    ELSE IF n < 0 THEN 0 - RoundFloat(FloatTimes(FloatDivide(0 - n, d), side))
    ELSE RoundFloat(FloatTimes(FloatDivide(n, d), side))

\* the choice of resize_factor in PillowProcessor.resize, by the operands of
\* its division
ResizeFactor(image, width, height, mode) ==
    LET width_delta == width - image.width
        height_delta == height - image.height
    IN IF (mode = "FIT" /\ width_delta < height_delta)
          \/ (mode = "FILL" /\ width_delta > height_delta)
       THEN [num |-> width, den |-> image.width]
       ELSE [num |-> height, den |-> image.height]

\* (resized_width, resized_height) in PillowProcessor.resize
ResizedSize(image, width, height, mode) ==
    IF mode \in {"FIT", "FILL"}
    THEN LET resize_factor == ResizeFactor(image, width, height, mode)
         IN Image(RoundScaled(resize_factor.num, resize_factor.den, image.width),
                  RoundScaled(resize_factor.num, resize_factor.den, image.height))
    ELSE Image(width, height)

\* Pillow's Image.resize refuses a size with a side below 1 with a ValueError
PillowRefuses(size) == size.width < 1 \/ size.height < 1

\* the body of PillowProcessor.resize for an asset: what it returns or raises,
\* the native calls it makes, and the size and factor it computed
Resize(asset, width, height, mode) ==
    LET image == Decode(asset.essence_data)
        size == ResizedSize(image, width, height, mode)
        factor == ResizeFactor(image, width, height, mode)
    IN IF PillowRefuses(size)
       THEN [raised |-> "ValueError", asset |-> Asset, size |-> size, factor |-> factor,
             kwargs |-> [width |-> width, height |-> height, mode |-> mode],
             native |-> <<"Image.open", "Image.resize">>]
       ELSE [raised |-> "None", asset |-> ReadJpeg(Encode(size)), size |-> size,
             factor |-> factor,
             kwargs |-> [width |-> width, height |-> height, mode |-> mode],
             native |-> <<"Image.open", "Image.resize", "Image.save", "Image.open">>]

NoKwargs == [width |-> 0, height |-> 0, mode |-> "EXACT"]

ImageOp(op, input, result, run) ==
    [op |-> op, input |-> input, result |-> result, raised |-> run.raised,
     size |-> run.size, factor |-> run.factor, kwargs |-> run.kwargs,
     native |-> run.native]

NoRun == [raised |-> "None", size |-> Image(0, 0), factor |-> [num |-> 0, den |-> 1],
          kwargs |-> NoKwargs, native |-> <<>>]

\* read(jpeg_file) through read_jpeg: a new Asset object
ReadJpegFile(bytes) ==
    /\ heap = <<>>
    /\ heap' = Append(heap, ReadJpeg(bytes))
    /\ resizeLast' = ImageOp("read_jpeg", 0, Len(heap) + 1,
                             [NoRun EXCEPT !.native = <<"Image.open">>])
    /\ UNCHANGED configured

\* processor.resize(width=, height=, mode=): the wrapper of operation returns
\* functools.partial(function, self, **kwargs)
ConfigureResize(width, height, mode) ==
    /\ Len(heap) < 2
    /\ configured' = [set |-> TRUE, kwargs |-> [width |-> width, height |-> height,
                                                 mode |-> mode]]
    /\ resizeLast' = ImageOp("configure", 0, 0, NoRun)
    /\ UNCHANGED heap

\* a mutant of the operator: the input asset is rewritten and returned
ApplyOperatorInPlace(input) ==
    /\ configured.set
    /\ Len(heap) = 1
    /\ LET run == Resize(heap[input], configured.kwargs.width,
                         configured.kwargs.height, configured.kwargs.mode)
       IN IF run.raised # "None"
          THEN /\ resizeLast' = ImageOp("resize", input, 0, run)
               /\ UNCHANGED heap
          ELSE /\ heap' = Append([heap EXCEPT ![input] = run.asset], run.asset)
               /\ resizeLast' = ImageOp("resize", input, input, run)
    /\ UNCHANGED configured

\* configured_operator(asset): the asset it returns is a new object
ApplyOperator(input) ==
    /\ configured.set
    /\ Len(heap) = 1
    /\ LET run == Resize(heap[input], configured.kwargs.width,
                         configured.kwargs.height, configured.kwargs.mode)
       IN IF run.raised # "None"
          THEN /\ resizeLast' = ImageOp("resize", input, 0, run)
               /\ UNCHANGED heap
          ELSE /\ heap' = Append(heap, run.asset)
               /\ resizeLast' = ImageOp("resize", input, Len(heap) + 1, run)
    /\ UNCHANGED configured

InitImage ==
    /\ heap = <<>>
    /\ configured = [set |-> FALSE, kwargs |-> NoKwargs]
    /\ resizeLast = ImageOp("none", 0, 0, NoRun)

\* sides at which the float product falls just below a half that the exact
\* product reaches: 17/14 * 21 gives 25.499999999999996
UnevenSides == {14, 21}
UnevenTargetSides == {17, 25}

Sides == (1..MaxDim) \cup UnevenSides
TargetSides == {-1} \cup (1..MaxDim) \cup UnevenTargetSides

ReadImage ==
    /\ \E w \in Sides, h \in Sides : ReadJpegFile(Encode(Image(w, h)))
    /\ UNCHANGED <<storageVars, readVars, pipeVars, valueVars>>
Configure ==
    /\ \E width \in TargetSides, height \in TargetSides, mode \in Modes :
            ConfigureResize(width, height, mode)
    /\ UNCHANGED <<storageVars, readVars, pipeVars, valueVars>>
ApplyConfigured ==
    /\ \E input \in DOMAIN heap : ApplyOperator(input)
    /\ UNCHANGED <<storageVars, readVars, pipeVars, valueVars>>

(***************************************************************************)
(* Specifications                                                          *)
(***************************************************************************)
InitStorage ==
    /\ backend \in {"file", "memory"}
    /\ InitFile /\ InitMem /\ InitRead /\ InitPipe /\ InitEq /\ InitImage

NextStorage ==
    \/ FileAdd
    \/ FileRemove
    \/ FileReopen
    \/ FileContains
    \/ FileIter
    \/ MemoryAdd
    \/ MemoryRemove
    \/ MemoryGet

SpecStorage == InitStorage /\ [][NextStorage]_vars

InitRace ==
    /\ backend = "file"
    /\ InitFile /\ InitMem /\ InitRead /\ InitPipe /\ InitEq /\ InitImage

NextRace ==
    \/ HandleOpen
    \/ HandleAdd
    \/ HandleRemove
    \/ HandleContains

SpecRace == InitRace /\ [][NextRace]_vars

InitDispatch ==
    /\ backend = "memory"
    /\ InitFile /\ InitMem /\ InitRead /\ InitPipe /\ InitEq /\ InitImage

NextDispatch ==
    \/ RegisterProcessor
    \/ RegisterMetadataProcessor
    \/ ReadStream

SpecRead == InitDispatch /\ [][NextDispatch]_vars

NextPipeline ==
    \/ AddOperator
    \/ CallProcess
    \/ RequestResult

SpecPipeline == InitDispatch /\ [][NextPipeline]_vars

NextEquality == CompareObjects

SpecEquality == InitDispatch /\ [][NextEquality]_vars

NextResize ==
    \/ ReadImage
    \/ Configure
    \/ ApplyConfigured

SpecResize == InitDispatch /\ [][NextResize]_vars

(***************************************************************************)
(* Properties of the storages                                              *)
(***************************************************************************)

\* C1: on a preserved directory, over any sequence of add, remove and reopen, add
\* never assigns an identifier that an earlier add assigned: the identifiers
\* assigned so far are as many as the adds that assigned them.
C1_IdentifiersNeverReused ==
    backend = "file" => Cardinality(assigned) = nAdds

\* C2: after the constructor, the next identifier is one more than the largest
\* stored key read as an integer, or 1 on a store without keys; an add stores the
\* asset under the decimal string of the next identifier and advances the
\* sequence by one; so, as long as nothing was removed, N adds leave exactly the
\* keys "1".."N", a reopen in between or not.
C2_SequenceResumesAfterLargestKey ==
    backend = "file" =>
        /\ fsLast.op = "open" =>
            /\ \A k \in DOMAIN shelf : IntOf(k) < idseq[fsLast.h]
            /\ DOMAIN shelf = {} => idseq[fsLast.h] = 1
            /\ DOMAIN shelf # {} => Str(idseq[fsLast.h] - 1) \in DOMAIN shelf
        /\ fsLast.op = "add" =>
            /\ idseq[fsLast.h] = IntOf(fsLast.key) + 1
            /\ fsLast.key \in DOMAIN shelf
            /\ AssetEq(shelf[fsLast.key], fsLast.asset)
        /\ ~removed =>
            /\ DOMAIN shelf = {Str(i) : i \in 1..nAdds}
            /\ idseq[1] = nAdds + 1

\* C2 witness: a reopen that scans a store whose keys are "9" and "10" and
\* resumes at 11.
C2_Witness ==
    /\ backend = "file"
    /\ fsLast.op = "open"
    /\ DOMAIN shelf = {Str(9), Str(10)}
    /\ idseq[1] = 11

\* C9: get(**kwargs) returns exactly the stored assets whose internal-namespace
\* metadata equals the given value for every given key, each once, in storage
\* order.
MatchesAll(asset, kwargs) ==
    \A i \in 1..Len(kwargs) :
        MapGet(asset.metadata["madam"], kwargs[i][1]) = kwargs[i][2]

RECURSIVE FilterAll(_, _)
FilterAll(list, kwargs) ==
    IF list = <<>> THEN <<>>
    ELSE (IF MatchesAll(list[1], kwargs) THEN <<list[1]>> ELSE <<>>)
            \o FilterAll(Tail(list), kwargs)

C9_GetReturnsAssetsMatchingAllPairs ==
    (backend = "memory" /\ memLast.op = "get") =>
        memLast.result = FilterAll(assets, memLast.kwargs)

\* C10: remove(asset) on a storage that holds no value equal to the asset raises
\* ValueError and leaves the entries, their keys and the identifier sequence
\* as they were.
C10_RemoveOfUnknownAssetRaises ==
    [][/\ (fsLast'.op = "remove" /\ ~Contains(shelf, fsLast'.asset)) =>
            /\ fsLast'.raised = "ValueError"
            /\ shelf' = shelf
            /\ idseq' = idseq
       /\ (memLast'.op = "remove" /\ ~MemContains(assets, memLast'.asset)) =>
            /\ memLast'.raised = "ValueError"
            /\ assets' = assets]_vars

\* C10 witness: a FileStorage that holds an asset has refused to remove another.
C10_Witness ==
    /\ backend = "file"
    /\ fsLast.op = "remove"
    /\ fsLast.raised = "ValueError"
    /\ shelf # EmptyMap
    /\ ~Contains(shelf, fsLast.asset)

(***************************************************************************)
(* Properties of read()                                                    *)
(*                                                                         *)
(* A step that changes readLast is a read() call; the registries it ran    *)
(* against are those of the state it started in.                           *)
(***************************************************************************)
Claimants(procs, file) == {i \in 1..Len(procs) : CanRead(procs[i], file)}

CallsOf(last, kind) == SelectSeq(last.calls, LAMBDA c : c.call = kind)

\* C3: read(stream) selects, among the registered processors whose can_read
\* returns true, the one registered earliest; the base asset is the result of
\* that processor's read, and no other processor's read is invoked.
C3_FirstRegisteredClaimantIsSelected ==
    [][(readLast' # readLast /\ Claimants(processors, readLast'.file) # {}) =>
        LET file == readLast'.file
            claimants == Claimants(processors, file)
            earliest == CHOOSE i \in claimants : \A j \in claimants : i <= j
            base == ProcessorRead(processors[earliest], file)
        IN /\ readLast'.returned
           /\ CallsOf(readLast', "read") = <<Call("read", processors[earliest].id, 0)>>
           /\ readLast'.asset.essence_data = base.essence_data
           /\ readLast'.asset.mime_type = base.mime_type
           /\ readLast'.asset.metadata["madam"] = base.metadata["madam"]]_vars

\* C3 witness: a read of a stream that both registered processors claim has
\* returned the asset of the first.
C3_Witness ==
    /\ Len(processors) = 2
    /\ readLast.returned
    /\ Claimants(processors, readLast.file) = {1, 2}
    /\ GetItem(readLast.asset, "processor") = processors[1].id
    /\ CallsOf(readLast, "read") = <<Call("read", processors[1].id, 0)>>

\* C4: if a registered metadata processor's read raises during read(), read()
\* still returns the asset, and for every other registered metadata processor
\* whose read succeeds the asset's metadata holds that processor's result under
\* its format name, wherever the failing processor stands in the iteration.
C4_MetadataFailureIsContained ==
    [][(readLast' # readLast /\ Claimants(processors, readLast'.file) # {}) =>
        LET file == readLast'.file
            dict == metadata_processors_by_format
        IN /\ readLast'.returned
           /\ readLast'.raised = "None"
           /\ \A i \in 1..Len(dict) :
                ~MetadataReadRaises(dict[i].value, file) =>
                    /\ dict[i].key \in DOMAIN readLast'.asset.metadata
                    /\ readLast'.asset.metadata[dict[i].key] =
                            MetadataRead(dict[i].value, file)]_vars

\* C4 witness: a read has returned an asset with the result of the second
\* metadata processor although the first one raised.
C4_Witness ==
    /\ readLast.returned
    /\ Len(metadata_processors_by_format) = 2
    /\ MetadataReadRaises(metadata_processors_by_format[1].value, readLast.file)
    /\ ~MetadataReadRaises(metadata_processors_by_format[2].value, readLast.file)
    /\ [i \in 1..2 |-> CallsOf(readLast, "metadata_read")[i].who] =
            [i \in 1..2 |-> metadata_processors_by_format[i].value.id]
    /\ readLast.asset.metadata[metadata_processors_by_format[2].key] =
            MetadataRead(metadata_processors_by_format[2].value, readLast.file)

\* C5: when no registered processor's can_read returns true, the registry being
\* empty or not, read() raises UnsupportedFormatError, returns no asset and
\* invokes no processor's read and no metadata processor's read.
C5_UnclaimedStreamIsRefused ==
    [][(readLast' # readLast /\ Claimants(processors, readLast'.file) = {}) =>
        /\ readLast'.raised = "UnsupportedFormatError"
        /\ ~readLast'.returned
        /\ CallsOf(readLast', "read") = <<>>
        /\ CallsOf(readLast', "metadata_read") = <<>>]_vars

\* C5 witness: a read was refused after both registered processors were asked,
\* with a metadata processor registered.
C5_Witness ==
    /\ readLast.raised = "UnsupportedFormatError"
    /\ Len(processors) = 2
    /\ Claimants(processors, readLast.file) = {}
    /\ Len(CallsOf(readLast, "can_read")) = 2
    /\ metadata_processors_by_format # <<>>

\* C17: for every registered metadata format whose processor's read raises
\* during read(), the asset that read() returns has no entry for that format's
\* namespace in its metadata, also when the selected content processor's own
\* read already placed an entry under that namespace.
\* The loop of read() only skips the assignment: what the content processor
\* placed under the name stays.
C17_FailedFormatHasNoNamespace ==
    [][(readLast' # readLast /\ readLast'.returned) =>
        \A i \in 1..Len(metadata_processors_by_format) :
            MetadataReadRaises(metadata_processors_by_format[i].value, readLast'.file)
                => metadata_processors_by_format[i].key
                        \notin DOMAIN readLast'.asset.metadata]_vars

\* C20 as stated: during read(), every registered metadata processor's read is
\* invoked exactly once, after the content processor's read has produced the
\* base asset, in the registration order of the metadata processors, and each
\* invocation starts with the stream rewound to position 0 wherever the content
\* processor or the previous metadata processor left it.
\* A processor constructed for a format name that is already registered takes
\* the place of the earlier one, ahead of processors registered before it.
C20_MetadataReadsInRegistrationOrder ==
    [][(readLast' # readLast /\ readLast'.returned) =>
        LET dict == metadata_processors_by_format
            reads == CallsOf(readLast', "metadata_read")
        IN /\ Len(reads) = Len(dict)
           /\ {reads[i].who : i \in 1..Len(reads)} = {dict[i].value.id : i \in 1..Len(dict)}
           /\ \A i, j \in 1..Len(reads) : i < j => reads[i].who < reads[j].who
           /\ \A i \in 1..Len(reads) : reads[i].pos = 0]_vars

\* the position in the call log of the content processor's read
ReadAt(calls) == CHOOSE i \in 1..Len(calls) : calls[i].call = "read"

Keys(dict) == [i \in 1..Len(dict) |-> dict[i].key]

\* C20, amended: during read(), the read of every metadata processor that the
\* registry holds, one per format name, is invoked exactly once, after the
\* content processor's read, in the order in which the format names were first
\* registered (a processor that replaced an earlier one under its name is
\* invoked at that name's place), and each invocation starts with the stream
\* rewound to position 0 wherever the previous reader left it.
C20_MetadataReadsInOrderOfFormatNames ==
    [][/\ (readLast' # readLast /\ readLast'.returned) =>
            LET dict == metadata_processors_by_format
                calls == readLast'.calls
                reads == CallsOf(readLast', "metadata_read")
            IN /\ Len(reads) = Len(dict)
               /\ \A i \in 1..Len(reads) :
                    /\ reads[i].who = dict[i].value.id
                    /\ reads[i].pos = 0
               /\ \A i \in 1..Len(calls) :
                    calls[i].call = "metadata_read"
                        => /\ i > ReadAt(calls)
                           /\ calls[i - 1] = Call("seek", 0, calls[i - 1].pos)
                           /\ calls[i - 1].pos > 0
       /\ nMeta' # nMeta =>
            LET dict == metadata_processors_by_format
                added == metadata_processors_by_format'
            IN \/ /\ Keys(added) = Keys(dict)
                  /\ \E i \in 1..Len(dict) :
                        /\ added[i].value.id = nMeta'
                        /\ \A j \in 1..Len(dict) : j # i => added[j] = dict[j]
               \/ /\ \A i \in 1..Len(dict) : dict[i].key # added[Len(added)].key
                  /\ added = Append(dict, added[Len(added)])
                  /\ added[Len(added)].value.id = nMeta']_vars

\* C20 witness: a read has invoked the processor that replaced the first
\* registered one before a processor constructed earlier, one of them failing,
\* each from position 0 although the stream had been left further on.
C20_Witness ==
    /\ readLast.returned
    /\ Len(metadata_processors_by_format) = 2
    /\ metadata_processors_by_format[1].value.id > metadata_processors_by_format[2].value.id
    /\ MetadataReadRaises(metadata_processors_by_format[1].value, readLast.file)
    /\ LET reads == CallsOf(readLast, "metadata_read")
       IN /\ Len(reads) = 2
          /\ reads[1] = Call("metadata_read", metadata_processors_by_format[1].value.id, 0)
          /\ reads[2] = Call("metadata_read", metadata_processors_by_format[2].value.id, 0)
    /\ \E i, j \in 1..Len(readLast.calls) :
            /\ readLast.calls[i].call = "seek"
            /\ readLast.calls[j].call = "seek"
            /\ readLast.calls[i].pos # readLast.calls[j].pos

\* the processors constructed for a format name, by their identities
ConstructedFor(history, format) == {id \in 1..Len(history) : history[id] = format}

Earliest(ids) == CHOOSE id \in ids : \A other \in ids : id <= other

\* whether ids names, for every format name of the history, the processor
\* constructed last for it, the names standing in the order of their first
\* construction
LatestInOrderOfNames(history, ids) ==
    /\ Len(ids) = Cardinality({history[id] : id \in 1..Len(history)})
    /\ \A i \in 1..Len(ids) :
            ids[i] = Max(ConstructedFor(history, history[ids[i]]))
    /\ \A i, j \in 1..Len(ids) :
            i < j => Earliest(ConstructedFor(history, history[ids[i]]))
                        < Earliest(ConstructedFor(history, history[ids[j]]))

\* C22: the metadata processor registry holds at most one processor per format
\* name: constructing a metadata processor whose format name is already
\* registered replaces the earlier processor without error, and read() then
\* invokes only the most recently constructed processor for that format, at the
\* iteration position of the first registration of the name.  The processors
\* that the last read() invoked are judged against the constructions that had
\* been made by then, the newest of which is always among the invoked.
C22_OneProcessorPerFormatName ==
    /\ nMeta = Len(constructed)
    /\ LET dict == metadata_processors_by_format
       IN /\ \A i \in 1..Len(dict) : dict[i].key = constructed[dict[i].value.id]
          /\ LatestInOrderOfNames(constructed, [i \in 1..Len(dict) |-> dict[i].value.id])
    /\ LET reads == CallsOf(readLast, "metadata_read")
           invoked == [i \in 1..Len(reads) |-> reads[i].who]
       IN invoked # <<>> =>
            LatestInOrderOfNames(
                SubSeq(constructed, 1, Max({invoked[i] : i \in 1..Len(invoked)})),
                invoked)

\* C22 witness: after exif, id3 and exif again were registered, a read has
\* invoked the third processor and then the second, and not the first.
C22_Witness ==
    /\ constructed = <<"exif", "id3", "exif">>
    /\ Keys(metadata_processors_by_format) = <<"exif", "id3">>
    /\ readLast.returned
    /\ LET reads == CallsOf(readLast, "metadata_read")
       IN [i \in 1..Len(reads) |-> reads[i].who] = <<3, 2>>

(***************************************************************************)
(* Properties of the pipeline                                              *)
(***************************************************************************)
Occurrences(ops, operator) == Cardinality({i \in 1..Len(ops) : ops[i] = operator})

\* a pipeline holding the failing operator once, unchanged since process() was
\* called with five assets
FailingScenario ==
    /\ gen.state # "none"
    /\ ~modified
    /\ Occurrences(operators, "raise_on_third") = 1
    /\ Len(gen.assets) = 5

\* C6, as claimed: with an operator that raises on its third invocation and
\* five input assets, exactly three successful results are observable before the
\* failure surfaces.
C6_ThreeResultsBeforeFailure ==
    (FailingScenario /\ failedAt > 0) => Len(results) = 3

\* C6, amended: in that scenario the failure surfaces at the third request, after
\* exactly two successful results.
C6_TwoResultsBeforeFailure ==
    FailingScenario =>
        /\ failedAt > 0 => (failedAt = 3 /\ Len(results) = 2)
        /\ requests >= 3 => failedAt = 3

\* C6 witness: the failure has surfaced in the scenario.
C6_Witness ==
    /\ FailingScenario
    /\ outcome = "raised"
    /\ failedAt = 3
    /\ Len(results) = 2

\* C7: process() is lazy: it invokes no operator before a result is requested,
\* no operator is invoked on the k-th input before the k-th request, and once an
\* operator has raised for the k-th input no operator is invoked on a later one.
C7_ProcessIsLazy ==
    /\ gen.state \in {"none", "created"} => applied = <<>>
    /\ \A n \in 1..Len(applied) : applied[n].input <= requests
    /\ failedAt > 0 => \A n \in 1..Len(applied) : applied[n].input <= failedAt

\* C7 witness: after a failure with inputs left over, the caller has asked again.
C7_Witness ==
    /\ failedAt > 0
    /\ requests > failedAt
    /\ Len(gen.assets) > failedAt
    /\ Len(operators) = 2
    /\ applied # <<>>

\* op_n(... op_2(op_1(asset)) ...)
RECURSIVE Composed(_, _)
Composed(ops, asset) ==
    IF ops = <<>> THEN asset
    ELSE Apply(ops[Len(ops)], Composed(SubSeq(ops, 1, Len(ops) - 1), asset))

\* C8: for a pipeline that is not modified during consumption, fully consuming
\* process(a1..am) yields exactly m results in input order, the i-th being
\* op_n(...op_1(a_i)...); with no operators each result is the input itself.
C8_ResultsAreFoldsInInputOrder ==
    (outcome = "StopIteration" /\ failedAt = 0 /\ ~modified) =>
        /\ Len(results) = Len(gen.assets)
        /\ \A i \in 1..Len(gen.assets) : results[i] = Composed(operators, gen.assets[i])
        /\ operators = <<>> => results = gen.assets

\* C8 witness: three assets, not all equal, were consumed through two operators
\* that do not commute.
C8_Witness ==
    /\ outcome = "StopIteration"
    /\ failedAt = 0
    /\ ~modified
    /\ operators = <<"enlarge", "toggle">>
    /\ Len(results) = 3
    /\ gen.assets[1] # gen.assets[2]
    /\ results[1] = results[2]

\* C21: the sequence that Pipeline.process returns shares the pipeline's live
\* operator list: an operator added with Pipeline.add after process() was called
\* and before a result is consumed is applied to that result and to all later
\* ones, results already consumed are unaffected, and so the results of one
\* process() call can have been folded through different operator lists.
C21_ResultsFollowTheLiveOperatorList ==
    [][/\ (requests' # requests /\ outcome' = "yielded")
            => /\ results' = Append(results,
                                    Composed(operators, gen.assets[gen.i + 1]))
               /\ InvokedOn(applied', gen.i + 1) = operators
       /\ operators' # operators
            => /\ \E operator \in OperatorNames : operators' = Append(operators, operator)
               /\ results' = results
               /\ gen' = gen
               /\ applied' = applied]_vars

\* C21 witness: of two results of one process() call the first was folded
\* through one operator and the second, after an add, through two.
C21_Witness ==
    /\ modified
    /\ Len(results) = 2
    /\ Len(operators) = 2
    /\ InvokedOn(applied, 1) = <<operators[1]>>
    /\ InvokedOn(applied, 2) = operators
    /\ results[1] = Composed(<<operators[1]>>, gen.assets[1])
    /\ results[1] # Composed(operators, gen.assets[1])
    /\ results[2] = Composed(operators, gen.assets[2])
    /\ results[2] # Composed(<<operators[1]>>, gen.assets[2])

(***************************************************************************)
(* Properties of Asset equality                                            *)
(***************************************************************************)

\* C11: two Assets compare equal if and only if their essence bytes, their
\* metadata mapping and their MIME type are all equal, and an Asset never
\* compares equal to an object that is not an Asset; so equality is reflexive
\* and symmetric over Assets and does not depend on object identity.
C11_EqualityIsByValue ==
    eqLast.op = "eq" =>
        LET a == eqLast.self
            b == eqLast.other
        IN /\ eqLast.result <=>
                /\ b.class = "Asset"
                /\ a.dict.essence_data = b.dict.essence_data
                /\ a.dict.metadata = b.dict.metadata
                /\ a.dict.mime_type = b.dict.mime_type
           /\ b.class = "Asset" => (eqLast.reflected <=> eqLast.result)
           /\ a = b => eqLast.result

\* C11 witness: two distinct Asset objects with equal jpeg contents compared equal.
C11_Witness ==
    /\ eqLast.op = "eq"
    /\ eqLast.result
    /\ eqLast.self.id # eqLast.other.id
    /\ eqLast.self.dict.mime_type = "image/jpeg"
    /\ eqLast.self.dict.essence_data # <<>>

(***************************************************************************)
(* C12: for a positive source size and a positive target size, FIT scales  *)
(* by the smaller of target width / source width and target height /       *)
(* source height and the rounded result lies within the target box; FILL   *)
(* scales by the larger ratio and the rounded result covers the box; the   *)
(* result is the source size times the chosen factor, rounded.             *)
(* The code chooses by comparing the differences target - source.          *)
(***************************************************************************)
SmallerRatio(source, width, height) ==
    IF width * source.height <= height * source.width
    THEN [num |-> width, den |-> source.width]
    ELSE [num |-> height, den |-> source.height]

LargerRatio(source, width, height) ==
    IF width * source.height >= height * source.width
    THEN [num |-> width, den |-> source.width]
    ELSE [num |-> height, den |-> source.height]

Scaled(source, factor) ==
    Image(RoundScaled(factor.num, factor.den, source.width),
          RoundScaled(factor.num, factor.den, source.height))

C12_ResizeScalesByRatio ==
    (/\ resizeLast.op = "resize"
     /\ resizeLast.kwargs.mode \in {"FIT", "FILL"}
     /\ resizeLast.kwargs.width > 0
     /\ resizeLast.kwargs.height > 0)
    => LET source == Decode(heap[resizeLast.input].essence_data)
           width == resizeLast.kwargs.width
           height == resizeLast.kwargs.height
       IN IF resizeLast.kwargs.mode = "FIT"
          THEN /\ resizeLast.size = Scaled(source, SmallerRatio(source, width, height))
               /\ resizeLast.size.width <= width
               /\ resizeLast.size.height <= height
          ELSE /\ resizeLast.size = Scaled(source, LargerRatio(source, width, height))
               /\ resizeLast.size.width >= width
               /\ resizeLast.size.height >= height

(***************************************************************************)
(* C13: applying a configured operator leaves the input asset as it was    *)
(* (essence bytes, metadata mapping and MIME type) and returns a new,      *)
(* distinct Asset object; configuring the operator does no work on any     *)
(* asset.                                                                  *)
(***************************************************************************)
C13_OperatorsLeaveTheirInput ==
    [][/\ (resizeLast'.op = "resize" /\ resizeLast' # resizeLast)
           => /\ \A id \in DOMAIN heap : heap'[id] = heap[id]
              /\ resizeLast'.raised = "None"
                    => /\ resizeLast'.result \in DOMAIN heap' \ DOMAIN heap
                       /\ resizeLast'.result # resizeLast'.input
       /\ configured' # configured
           => /\ heap' = heap
              /\ resizeLast'.native = <<>>]_vars

C13_Witness ==
    /\ resizeLast.op = "resize"
    /\ resizeLast.raised = "None"
    /\ resizeLast.result \in DOMAIN heap
    /\ resizeLast.result # resizeLast.input
    /\ heap[resizeLast.result] # heap[resizeLast.input]
    /\ Decode(heap[resizeLast.input].essence_data) # resizeLast.size

(***************************************************************************)
(* C14: in every state of an Asset its mime_type attribute equals the MIME *)
(* type held in its internal madam namespace, asset['mime_type']; an asset *)
(* built by a reader that sets the latter reports it as asset.mime_type.   *)
(* read_jpeg sets asset['mime_type'] and leaves the attribute at None.     *)
(***************************************************************************)
C14_MimeTypeAttributeMirrorsNamespace ==
    \A id \in DOMAIN heap : heap[id].mime_type = GetItem(heap[id], "mime_type")

(***************************************************************************)
(* C15: a resize operator configured with a negative width or a negative   *)
(* height fails with a ValueError when applied, and it fails before any    *)
(* native image work is attempted.                                         *)
(* PillowProcessor.resize checks nothing: it opens the image first, and a  *)
(* ValueError comes only from Pillow, for a computed size below 1.         *)
(***************************************************************************)
C15_NegativeSizeIsRefusedBeforeNativeWork ==
    (/\ resizeLast.op = "resize"
     /\ (resizeLast.kwargs.width < 0 \/ resizeLast.kwargs.height < 0))
    => /\ resizeLast.raised = "ValueError"
       /\ resizeLast.native = <<>>

(***************************************************************************)
(* C16: for a FileStorage used through one handle at a time, after any     *)
(* sequence of add, remove and reopen, asset in storage is true and        *)
(* iteration yields the asset exactly when the adds of an equal asset      *)
(* outnumber the successful removes of an equal asset; an asset added      *)
(* before a reopen is still contained after it.                            *)
(***************************************************************************)
Listed(values, asset) == \E i \in DOMAIN values : AssetEq(values[i], asset)

C16_ContainedWhileAddsExceedRemoves ==
    /\ \A a \in FileAssets : Contains(shelf, a) <=> balance[a] > 0
    /\ fsLast.op = "contains" => (fsLast.contained <=> balance[fsLast.asset] > 0)
    /\ fsLast.op = "iter"
         => \A a \in FileAssets : Listed(fsLast.listed, a) <=> balance[a] > 0

C16_Witness ==
    /\ fsLast.op = "iter"
    /\ removed
    /\ idseq[1] <= nAdds
    /\ \E a, b \in FileAssets :
            /\ balance[a] = 0 /\ ~Listed(fsLast.listed, a)
            /\ balance[b] > 1 /\ Listed(fsLast.listed, b)

(***************************************************************************)
(* C18: every FileStorage operation (the constructor's scan, add, remove,  *)
(* contains, iterate) opens the shelf, works on it and closes it within    *)
(* the operation: once an operation has returned or raised, a remove that  *)
(* raises for an unknown asset included, the shelf is closed; iteration    *)
(* returns the list of values made while the shelf was open, not a view    *)
(* of the open shelf.                                                      *)
(***************************************************************************)
C18_ShelfIsClosedAfterEveryOperation ==
    /\ fsLast.op \in {"open", "add", "remove", "contains", "iter"}
    /\ opened = 0
    /\ fsLast.op = "iter" => fsLast.listed \in Listings(shelf)

C18_Witness ==
    /\ fsLast.op = "remove"
    /\ fsLast.raised = "ValueError"
    /\ shelf # EmptyMap
    /\ nAdds > Cardinality(DOMAIN shelf)
    /\ opened = 0

(***************************************************************************)
(* C19: two FileStorage handles constructed on the same directory before   *)
(* either adds race on the identifiers: both assign the same identifier,   *)
(* the later add overwrites the entry the earlier one wrote, and an asset  *)
(* that was added and never removed is no longer contained.  Every add     *)
(* writes under its own handle's next identifier whatever the shelf holds; *)
(* the witness is the state the claim says is reachable.                   *)
(***************************************************************************)
C19_AddsOfTwoHandlesOverwrite ==
    [][(fsLast'.op = "add" /\ nAdds' # nAdds)
        => LET key == Str(idseq[fsLast'.h])
               asset == fsLast'.asset
           IN /\ fsLast'.key = key
              /\ shelf' = MapSet(shelf, key, asset)
              /\ key \in DOMAIN shelf
                    => /\ DOMAIN shelf' = DOMAIN shelf
                       /\ \A a \in FileAssets :
                            (KeysOf(shelf, a) = {key} /\ ~AssetEq(a, asset))
                                => ~Contains(shelf', a) /\ balance'[a] > 0]_vars

C19_Witness ==
    /\ fsLast.op = "add"
    /\ idseq[1] = idseq[2]
    /\ nAdds = Cardinality(Handles)
    /\ assigned = {fsLast.key}
    /\ ~removed
    /\ \E a \in FileAssets : balance[a] > 0 /\ ~Contains(shelf, a)

====
